---- MODULE Spec2Model ----
(***************************************************************************)
(* Model of tutorials/chatbot/data_pipelines/generator_utils.py:           *)
(* the question/answer parser (parse_qa_to_json), the throttled request    *)
(* executor (execute_chat_request_async, prepare_and_send_request) and the *)
(* batch orchestrator (generate_question_batches).                         *)
(*                                                                         *)
(* Text is a sequence of characters.  The two literals of the pattern,     *)
(* "Question:" and "Answer:", are single elements of such a sequence; the  *)
(* other elements are digits, the dot, the space, the newline and the      *)
(* letters "x" and "y" standing for any other character.                   *)
(***************************************************************************)
EXTENDS Integers, Sequences, FiniteSets, TLC

VARIABLES
    pc,                          \* position of generate_question_batches
    batches_count,               \* len(document_batches)
    total_questions,             \* api_context["total_questions"]
    questions_in_batch,          \* questions_in_current_batch of every batch
    error,                       \* exception raised by generate_question_batches
    question_generation_results, \* value returned by generate_question_batches
    tpc,                         \* position of the task of every batch
    response,                    \* outcome of the completion call of every batch
    task_result,                 \* outcome of prepare_and_send_request of every batch
    request_limiter,             \* value of the semaphore
    slot_held,                   \* batches whose task is inside "async with request_limiter"
    finish_order,                \* batches in the order their completion calls finished
    requests_sent,               \* the chat requests submitted for every batch, in order
    parse_pc,                    \* position of a stand-alone call of parse_qa_to_json
    qa_input,                    \* the records the text of that call was written from
    response_string,             \* argument of that call
    qa_json,                     \* value returned by that call
    other_pc,                    \* position of a second run of generate_question_batches
    other_tpc,                   \* position of every task of the second run
    other_response,              \* outcome of the completion call of those tasks
    read_pc,                     \* position of read_file_content
    walk_files,                  \* the files os.walk yields, in order
    walk_pos,                    \* index of the file the walk is at
    file_strings,                \* file_strings of read_file_content
    corpus,                      \* value returned by read_file_content
    read_error                   \* exception raised by read_file_content

vars == <<pc, batches_count, total_questions, questions_in_batch, error,
          question_generation_results, tpc, response, task_result,
          request_limiter, slot_held, finish_order, requests_sent,
          parse_pc, qa_input, response_string, qa_json,
          other_pc, other_tpc, other_response,
          read_pc, walk_files, walk_pos, file_strings, corpus, read_error>>

orchestrator_vars == <<pc, batches_count, total_questions, questions_in_batch, error,
                       question_generation_results, tpc, response, task_result,
                       request_limiter, slot_held, finish_order, requests_sent>>

parser_vars == <<parse_pc, qa_input, response_string, qa_json>>

other_run_vars == <<other_pc, other_tpc, other_response>>

reader_vars == <<read_pc, walk_files, walk_pos, file_strings, corpus, read_error>>

----------------------------------------------------------------------------
(* Bounds *)

MaxChunks == 3
MaxTotal == 4
MaxRecords == 2

(* batches of each run when two runs share the process *)
MaxSharedChunks == 2

(* files in data_dir *)
MaxFiles == 2

(* rate_limit_threshold is 2000 in the source; the model scales it down to *)
(* ScaledRateLimit so that more batches than slots can exist.              *)
ScaledRateLimit == 3

rate_limit_threshold == ScaledRateLimit

allowed_concurrent_requests == (rate_limit_threshold * 75) \div 100

----------------------------------------------------------------------------
(* Characters *)

IsDigit(c) == c \in {"1", "2"}

IsSpace(c) == c \in {" ", "\n"}

RECURSIVE SkipDigits(_, _)
SkipDigits(s, p) ==
    IF p <= Len(s) /\ IsDigit(s[p]) THEN SkipDigits(s, p + 1) ELSE p

RECURSIVE SkipSpace(_, _)
SkipSpace(s, p) ==
    IF p <= Len(s) /\ IsSpace(s[p]) THEN SkipSpace(s, p + 1) ELSE p

RECURSIVE lstrip(_)
lstrip(s) == IF s # <<>> /\ IsSpace(Head(s)) THEN lstrip(Tail(s)) ELSE s

RECURSIVE rstrip(_)
rstrip(s) ==
    IF s # <<>> /\ IsSpace(s[Len(s)]) THEN rstrip(SubSeq(s, 1, Len(s) - 1)) ELSE s

strip(s) == rstrip(lstrip(s))

----------------------------------------------------------------------------
(* The pattern of parse_qa_to_json, matched as a backtracking matcher      *)
(* matches it.  Positions are 1-based; 0 stands for "no match".            *)

(* \d*\.\s*Question:  at p: the position after it.  Both greedy runs are   *)
(* followed by a character outside their class, so only the longest run    *)
(* can be followed by a match.                                             *)
MarkerEnd(s, p) ==
    LET d == SkipDigits(s, p) IN
    IF d <= Len(s) /\ s[d] = "."
    THEN LET w == SkipSpace(s, d + 1) IN
         IF w <= Len(s) /\ s[w] = "Question:" THEN w + 1 ELSE 0
    ELSE 0

(* (?=\n\d*\.\s*Question:|\Z) at e *)
Lookahead(s, e) ==
    \/ e = Len(s) + 1
    \/ e <= Len(s) /\ s[e] = "\n" /\ MarkerEnd(s, e + 1) # 0

(* (.*?)\nAnswer: from p: the least position of a "\nAnswer:" at or after p *)
RECURSIVE QuestionEnd(_, _)
QuestionEnd(s, p) ==
    IF p + 1 > Len(s) THEN 0
    ELSE IF s[p] = "\n" /\ s[p + 1] = "Answer:" THEN p
    ELSE QuestionEnd(s, p + 1)

(* \s* after "Question:": greedy, from the longest run w down to lo, the   *)
(* first length after which the rest of the pattern matches.  What follows *)
(* "\nAnswer:" always matches (the second group can run to the end of the  *)
(* text), so the rest matches exactly when a "\nAnswer:" follows.          *)
RECURSIVE QuestionStart(_, _, _)
QuestionStart(s, lo, w) ==
    IF QuestionEnd(s, w) # 0 THEN w
    ELSE IF w > lo THEN QuestionStart(s, lo, w - 1)
    ELSE 0

(* (.*?)(?=...) from p: the least position at or after p where the         *)
(* lookahead holds.                                                        *)
RECURSIVE AnswerEnd(_, _)
AnswerEnd(s, p) == IF Lookahead(s, p) THEN p ELSE AnswerEnd(s, p + 1)

NoMatch == [ok |-> FALSE, question |-> <<>>, answer |-> <<>>, end |-> 0]

(* pattern.match at p *)
MatchAt(s, p) ==
    LET h == MarkerEnd(s, p) IN
    IF h = 0 THEN NoMatch
    ELSE LET qs == QuestionStart(s, h, SkipSpace(s, h)) IN
         IF qs = 0 THEN NoMatch
         ELSE LET qe == QuestionEnd(s, qs)
                  as == SkipSpace(s, qe + 2)
                  ae == AnswerEnd(s, as)
              IN  [ok |-> TRUE,
                   question |-> SubSeq(s, qs, qe - 1),
                   answer |-> SubSeq(s, as, ae - 1),
                   end |-> ae]

(* pattern.findall from p: leftmost matches, none overlapping *)
RECURSIVE findall(_, _)
findall(s, p) ==
    IF p > Len(s) THEN <<>>
    ELSE LET m == MatchAt(s, p) IN
         IF m.ok THEN <<<<m.question, m.answer>>>> \o findall(s, m.end)
         ELSE findall(s, p + 1)

----------------------------------------------------------------------------
(* JSON text is a sequence of JSON tokens; the empty string is <<>>. *)

JTok(t) == [t |-> t, v |-> <<>>]

JStr(s) == [t |-> "str", v |-> s]

RECURSIVE json_dumps_items(_)
json_dumps_items(qa_list) ==
    IF qa_list = <<>> THEN <<>>
    ELSE <<JTok("{"), JStr(Head(qa_list).question), JStr(Head(qa_list).answer), JTok("}")>>
         \o json_dumps_items(Tail(qa_list))

(* json.dumps, but the empty string for an empty list *)
json_dumps_blank_when_empty(qa_list) ==
    IF qa_list = <<>> THEN <<>>
    ELSE <<JTok("[")>> \o json_dumps_items(qa_list) \o <<JTok("]")>>

json_dumps(qa_list) == <<JTok("[")>> \o json_dumps_items(qa_list) \o <<JTok("]")>>

RECURSIVE json_loads_items(_)
json_loads_items(text) ==
    IF Len(text) < 4 THEN <<>>
    ELSE <<[question |-> text[2].v, answer |-> text[3].v]>>
         \o json_loads_items(SubSeq(text, 5, Len(text)))

(* json.loads: the decoded list, or JSONDecodeError on text that is not a  *)
(* JSON array (the empty string among it).                                 *)
json_loads(text) ==
    IF /\ Len(text) >= 2
       /\ text[1].t = "["
       /\ text[Len(text)].t = "]"
       /\ (Len(text) - 2) % 4 = 0
    THEN [exc |-> "none", value |-> json_loads_items(SubSeq(text, 2, Len(text) - 1))]
    ELSE [exc |-> "JSONDecodeError", value |-> <<>>]

qa_list_of(matches) ==
    [i \in 1..Len(matches) |->
        [question |-> strip(matches[i][1]), answer |-> strip(matches[i][2])]]

parse_qa_to_json(s) == json_dumps(qa_list_of(findall(s, 1)))

----------------------------------------------------------------------------
(* The completion service *)

QAText == <<"1", ".", " ", "Question:", " ", "x", "\n", "Answer:", " ", "y">>

QAText2 ==
    <<"1", ".", " ", "Question:", " ", "y", "\n", "Answer:", " ", "x", "\n", "y", "\n",
      "2", ".", " ", "Question:", " ", "x", "\n", "Answer:", " ", "x">>

PlainText == <<"x", " ", "y">>

Choice(role, content) == [role |-> role, content |-> content]

(* response.choices of the responses the service may give *)
Responses ==
    { <<Choice("assistant", QAText)>>,
      <<Choice("user", PlainText), Choice("assistant", QAText2)>>,
      <<Choice("assistant", PlainText)>>,
      <<Choice("user", QAText)>> }

NoResponse == [status |-> "none", choices |-> <<>>]

NoResult == [exc |-> "pending", value |-> <<>>]

Batches == 1..batches_count

----------------------------------------------------------------------------
(* The request limiter: asyncio.Semaphore(allowed_concurrent_requests) *)

(* a limiter that admits one task more than its capacity *)
locked_above_capacity(value) == value < 0

locked(value) == value <= 0

acquired(value) == value - 1

(* a limiter slot that is never given back *)
released_never(value, resp) == value

(* a limiter slot that is not given back when the call raised *)
released_unless_raised(value, resp) ==
    IF resp.status = "raised" THEN value ELSE value + 1

released(value, resp) == value + 1

----------------------------------------------------------------------------
(* execute_chat_request_async and prepare_and_send_request *)

(* the content of the first choice, whatever its role *)
assistant_response_any_role(choices) ==
    IF choices = <<>> THEN <<>> ELSE Head(choices).content

(* next((choice.message.content for choice in response.choices             *)
(*       if choice.message.role == 'assistant'), "")                       *)
RECURSIVE assistant_response(_)
assistant_response(choices) ==
    IF choices = <<>> THEN <<>>
    ELSE IF Head(choices).role = "assistant" THEN Head(choices).content
    ELSE assistant_response(Tail(choices))

(* the string execute_chat_request_async returns once the call is over *)
chat_request_value(resp) ==
    IF resp.status = "raised" THEN <<>>
    ELSE parse_qa_to_json(assistant_response(resp.choices))

(* the outcome of prepare_and_send_request: json.loads of that string *)
request_outcome(resp) == json_loads(chat_request_value(resp))

----------------------------------------------------------------------------
(* generate_question_batches *)

(* the extra question given to one batch too many *)
questions_in_current_batch_one_more(total, count, batch_index) ==
    (total \div count) + (IF batch_index <= total % count THEN 1 ELSE 0)

(* the extra questions given to the last batches instead of the first *)
questions_in_current_batch_last_first(total, count, batch_index) ==
    (total \div count) + (IF batch_index >= count - (total % count) THEN 1 ELSE 0)

questions_in_current_batch(total, count, batch_index) ==
    (total \div count) + (IF batch_index < total % count THEN 1 ELSE 0)

(* results in the order in which the calls finished *)
gather_results_as_completed(results, order) ==
    [k \in 1..Len(order) |-> results[order[k]].value]

(* asyncio.gather over generation_tasks: results in the order of the tasks *)
gather_results(results, order) == [i \in 1..Len(results) |-> results[i].value]

(* the task of a batch that is given no question is never started *)
position_at_creation_skipping_empty(questions) ==
    IF questions = 0 THEN "done" ELSE "created"

(* line 130: a task is created for the batch, whatever its quota *)
position_at_creation(questions) == "created"

(* the tasks start one after the other, each when the one before is over *)
may_start_after_previous(i) == \A j \in Batches : j < i => tpc[j] = "done"

(* the event loop starts the tasks in the order gather received them *)
may_start(i) == \A j \in Batches : j < i => tpc[j] # "created"

(* line 110: the payload sent for batch i, the quota in its system prompt *)
chat_request_payload(i) ==
    [total_questions |-> questions_in_batch[i], document_content |-> i]

(* a task whose call raised starts again *)
position_after_call_retrying(resp) ==
    IF resp.status = "raised" THEN "created" ELSE "done"

(* lines 103, 106 and 111: the task ends, whatever the outcome of the call *)
position_after_call(resp) == "done"

(* parse_qa_to_json is not called on its own *)
NoParserCall ==
    /\ parse_pc = "idle"
    /\ qa_input = <<>>
    /\ response_string = <<>>
    /\ qa_json = <<>>

(* no second run of generate_question_batches in the process *)
NoOtherRun ==
    /\ other_pc = "absent"
    /\ other_tpc = <<>>
    /\ other_response = <<>>

(* read_file_content is not called *)
NoReaderCall ==
    /\ read_pc = "idle"
    /\ walk_files = <<>>
    /\ walk_pos = 0
    /\ file_strings = <<>>
    /\ corpus = <<>>
    /\ read_error = "none"

Init ==
    /\ pc = "start"
    /\ batches_count \in 0..MaxChunks
    /\ total_questions \in 0..MaxTotal
    /\ questions_in_batch = <<>>
    /\ error = "none"
    /\ question_generation_results = <<>>
    /\ tpc = [i \in 1..batches_count |-> "uncreated"]
    /\ response = [i \in 1..batches_count |-> NoResponse]
    /\ task_result = [i \in 1..batches_count |-> NoResult]
    /\ request_limiter = allowed_concurrent_requests
    /\ slot_held = {}
    /\ finish_order = <<>>
    /\ requests_sent = [i \in 1..batches_count |-> <<>>]
    /\ NoParserCall
    /\ NoOtherRun
    /\ NoReaderCall

(* lines 114-133, up to the await of gather: the quotas are computed and   *)
(* one task per batch is created; with no batch the division raises.       *)
generate_question_batches ==
    /\ pc = "start"
    /\ IF batches_count = 0
       THEN /\ pc' = "raised"
            /\ error' = "ZeroDivisionError"
            /\ UNCHANGED <<questions_in_batch, tpc>>
       ELSE /\ questions_in_batch' =
                  [i \in Batches |->
                      questions_in_current_batch(total_questions, batches_count, i - 1)]
            /\ tpc' = [i \in Batches |->
                          position_at_creation(
                              questions_in_current_batch(total_questions, batches_count, i - 1))]
            /\ pc' = "gather"
            /\ UNCHANGED error
    /\ UNCHANGED <<batches_count, total_questions, question_generation_results,
                   response, task_result, request_limiter, slot_held, finish_order,
                   requests_sent>>
    /\ UNCHANGED <<parser_vars, other_run_vars, reader_vars>>

(* first step of the task of batch i: the request is built and the limiter *)
(* entered; the call is submitted at once when a slot is free.  The event  *)
(* loop starts the tasks in the order gather received them.                *)
prepare_and_send_request(i) ==
    /\ tpc[i] = "created"
    /\ may_start(i)
    /\ IF locked(request_limiter)
       THEN /\ tpc' = [tpc EXCEPT ![i] = "waiting"]
            /\ UNCHANGED <<request_limiter, slot_held, requests_sent>>
       ELSE /\ tpc' = [tpc EXCEPT ![i] = "calling"]
            /\ request_limiter' = acquired(request_limiter)
            /\ slot_held' = slot_held \cup {i}
            /\ requests_sent' =
                  [requests_sent EXCEPT ![i] = Append(@, chat_request_payload(i))]
    /\ UNCHANGED <<pc, batches_count, total_questions, questions_in_batch, error,
                   question_generation_results, response, task_result, finish_order>>
    /\ UNCHANGED <<parser_vars, other_run_vars, reader_vars>>

(* a task waiting for the limiter gets a slot and submits its call *)
acquire(i) ==
    /\ tpc[i] = "waiting"
    /\ ~locked(request_limiter)
    /\ tpc' = [tpc EXCEPT ![i] = "calling"]
    /\ request_limiter' = acquired(request_limiter)
    /\ slot_held' = slot_held \cup {i}
    /\ requests_sent' = [requests_sent EXCEPT ![i] = Append(@, chat_request_payload(i))]
    /\ UNCHANGED <<pc, batches_count, total_questions, questions_in_batch, error,
                   question_generation_results, response, task_result, finish_order>>
    /\ UNCHANGED <<parser_vars, other_run_vars, reader_vars>>

(* the call of batch i ends in its worker thread, with a response *)
api_chat_call_returns(i, choices) ==
    /\ tpc[i] = "calling"
    /\ response' = [response EXCEPT ![i] = [status |-> "returned", choices |-> choices]]
    /\ tpc' = [tpc EXCEPT ![i] = "resuming"]
    /\ finish_order' = Append(finish_order, i)
    /\ UNCHANGED <<pc, batches_count, total_questions, questions_in_batch, error,
                   question_generation_results, task_result, request_limiter, slot_held,
                   requests_sent>>
    /\ UNCHANGED <<parser_vars, other_run_vars, reader_vars>>

(* the call of batch i ends in its worker thread, with an exception *)
api_chat_call_raises(i) ==
    /\ tpc[i] = "calling"
    /\ response' = [response EXCEPT ![i] = [status |-> "raised", choices |-> <<>>]]
    /\ tpc' = [tpc EXCEPT ![i] = "resuming"]
    /\ finish_order' = Append(finish_order, i)
    /\ UNCHANGED <<pc, batches_count, total_questions, questions_in_batch, error,
                   question_generation_results, task_result, request_limiter, slot_held,
                   requests_sent>>
    /\ UNCHANGED <<parser_vars, other_run_vars, reader_vars>>

(* the task of batch i resumes after the await of line 97: lines 100-106,  *)
(* the exit of "async with", then json.loads of line 111.                  *)
execute_chat_request_async(i) ==
    /\ tpc[i] = "resuming"
    /\ request_limiter' = released(request_limiter, response[i])
    /\ slot_held' = slot_held \ {i}
    /\ task_result' = [task_result EXCEPT ![i] = request_outcome(response[i])]
    /\ tpc' = [tpc EXCEPT ![i] = position_after_call(response[i])]
    /\ UNCHANGED <<pc, batches_count, total_questions, questions_in_batch, error,
                   question_generation_results, response, finish_order, requests_sent>>
    /\ UNCHANGED <<parser_vars, other_run_vars, reader_vars>>

(* gather: every task has returned *)
gather_returns ==
    /\ pc = "gather"
    /\ \A i \in Batches : tpc[i] = "done" /\ task_result[i].exc = "none"
    /\ question_generation_results' = gather_results(task_result, finish_order)
    /\ pc' = "returned"
    /\ UNCHANGED <<batches_count, total_questions, questions_in_batch, error,
                   tpc, response, task_result, request_limiter, slot_held, finish_order,
                   requests_sent>>
    /\ UNCHANGED <<parser_vars, other_run_vars, reader_vars>>

(* gather: a task has raised; the exception reaches the awaiting           *)
(* generate_question_batches, the other tasks go on.                       *)
gather_raises ==
    /\ pc = "gather"
    /\ \E i \in Batches :
          /\ tpc[i] = "done"
          /\ task_result[i].exc # "none"
          /\ error' = task_result[i].exc
    /\ pc' = "raised"
    /\ UNCHANGED <<batches_count, total_questions, questions_in_batch,
                   question_generation_results,
                   tpc, response, task_result, request_limiter, slot_held, finish_order,
                   requests_sent>>
    /\ UNCHANGED <<parser_vars, other_run_vars, reader_vars>>

Next ==
    \/ generate_question_batches
    \/ \E i \in Batches : prepare_and_send_request(i)
    \/ \E i \in Batches : acquire(i)
    \/ \E i \in Batches : \E choices \in Responses : api_chat_call_returns(i, choices)
    \/ \E i \in Batches : api_chat_call_raises(i)
    \/ \E i \in Batches : execute_chat_request_async(i)
    \/ gather_returns
    \/ gather_raises

Spec == Init /\ [][Next]_vars

(* the ways a completion call can end *)
CallResults ==
    { [status |-> "returned", choices |-> choices] : choices \in Responses }
    \cup { [status |-> "raised", choices |-> <<>>] }

(* the outcomes a task can have *)
Outcomes == { request_outcome(resp) : resp \in CallResults }

(* What the event loop sees of execute_chat_request_async(i): the task of  *)
(* batch i, ready to resume, runs to its end with one of the outcomes and  *)
(* gives its slot back.                                                    *)
task_resumes(i) ==
    /\ tpc[i] = "resuming"
    /\ \E outcome \in Outcomes : task_result' = [task_result EXCEPT ![i] = outcome]
    /\ request_limiter' = released(request_limiter, response[i])
    /\ slot_held' = slot_held \ {i}
    /\ tpc' = [tpc EXCEPT ![i] = position_after_call(response[i])]
    /\ UNCHANGED <<pc, batches_count, total_questions, questions_in_batch, error,
                   question_generation_results, response, finish_order, requests_sent>>
    /\ UNCHANGED <<parser_vars, other_run_vars, reader_vars>>

(* The scheduling the claims about progress assume: every completion call *)
(* ends, the event loop runs the tasks that are ready and the limiter      *)
(* wakes a waiting task when a slot is free, so the program does not stop  *)
(* while one of its steps can be taken.                                    *)
Fairness ==
    /\ WF_vars(\/ generate_question_batches
               \/ \E i \in Batches : prepare_and_send_request(i)
               \/ \E i \in Batches : acquire(i)
               \/ \E i \in Batches : \E choices \in Responses :
                      api_chat_call_returns(i, choices)
               \/ \E i \in Batches : api_chat_call_raises(i)
               \/ gather_returns
               \/ gather_raises)
    /\ WF_vars(\E i \in Batches : task_resumes(i))

(* The quotas play no part in the scheduling: one total is followed. *)
FairInit == Init /\ total_questions = MaxTotal

FairSpec == FairInit /\ [][Next]_vars /\ Fairness

----------------------------------------------------------------------------
(* Two runs of generate_question_batches in one process and one event      *)
(* loop.  request_limiter is created once, when the module is imported     *)
(* (line 22), and execute_chat_request_async names that object (line 85).  *)
(* The second run goes through the same steps; its quotas and its results  *)
(* are not recorded.  The quotas play no part in the limiter: one total is *)
(* followed for the first run.                                             *)

OtherBatches == DOMAIN other_tpc

(* the tasks of the second run that are inside "async with request_limiter" *)
other_slot_held == {i \in OtherBatches : other_tpc[i] \in {"calling", "resuming"}}

(* a limiter of its own for each run: only the run's own tasks count *)
other_run_limiter_of_its_own == allowed_concurrent_requests - Cardinality(other_slot_held)

(* lines 22 and 85: the limiter the tasks of the second run enter *)
other_run_limiter == request_limiter

(* the ways a completion call of the second run can end *)
OtherCallResults ==
    { [status |-> "returned", choices |-> <<Choice("assistant", QAText)>>],
      [status |-> "raised", choices |-> <<>>] }

SharedInit ==
    /\ pc = "start"
    /\ batches_count \in 1..MaxSharedChunks
    /\ total_questions = MaxTotal
    /\ questions_in_batch = <<>>
    /\ error = "none"
    /\ question_generation_results = <<>>
    /\ tpc = [i \in 1..batches_count |-> "uncreated"]
    /\ response = [i \in 1..batches_count |-> NoResponse]
    /\ task_result = [i \in 1..batches_count |-> NoResult]
    /\ request_limiter = allowed_concurrent_requests
    /\ slot_held = {}
    /\ finish_order = <<>>
    /\ requests_sent = [i \in 1..batches_count |-> <<>>]
    /\ NoParserCall
    /\ other_pc = "start"
    /\ \E n \in 1..MaxSharedChunks :
          /\ other_tpc = [i \in 1..n |-> "uncreated"]
          /\ other_response = [i \in 1..n |-> NoResponse]
    /\ NoReaderCall

(* lines 114-133 in the second run: one task per batch is created *)
other_generate_question_batches ==
    /\ other_pc = "start"
    /\ other_tpc' = [i \in OtherBatches |-> "created"]
    /\ other_pc' = "gather"
    /\ UNCHANGED <<other_response, orchestrator_vars, parser_vars, reader_vars>>

(* first step of a task of the second run: the limiter is entered *)
other_prepare_and_send_request(i) ==
    /\ other_tpc[i] = "created"
    /\ \A j \in OtherBatches : j < i => other_tpc[j] # "created"
    /\ IF locked(other_run_limiter)
       THEN /\ other_tpc' = [other_tpc EXCEPT ![i] = "waiting"]
            /\ UNCHANGED request_limiter
       ELSE /\ other_tpc' = [other_tpc EXCEPT ![i] = "calling"]
            /\ request_limiter' = acquired(request_limiter)
    /\ UNCHANGED <<other_pc, other_response>>
    /\ UNCHANGED <<pc, batches_count, total_questions, questions_in_batch, error,
                   question_generation_results, tpc, response, task_result,
                   slot_held, finish_order, requests_sent>>
    /\ UNCHANGED <<parser_vars, reader_vars>>

(* a waiting task of the second run gets a slot and submits its call *)
other_acquire(i) ==
    /\ other_tpc[i] = "waiting"
    /\ ~locked(other_run_limiter)
    /\ other_tpc' = [other_tpc EXCEPT ![i] = "calling"]
    /\ request_limiter' = acquired(request_limiter)
    /\ UNCHANGED <<other_pc, other_response>>
    /\ UNCHANGED <<pc, batches_count, total_questions, questions_in_batch, error,
                   question_generation_results, tpc, response, task_result,
                   slot_held, finish_order, requests_sent>>
    /\ UNCHANGED <<parser_vars, reader_vars>>

(* the call of a task of the second run ends, with a response or an exception *)
other_api_chat_call_ends(i, resp) ==
    /\ other_tpc[i] = "calling"
    /\ other_response' = [other_response EXCEPT ![i] = resp]
    /\ other_tpc' = [other_tpc EXCEPT ![i] = "resuming"]
    /\ UNCHANGED <<other_pc, orchestrator_vars, parser_vars, reader_vars>>

(* a task of the second run resumes, leaves "async with" and ends *)
other_execute_chat_request_async(i) ==
    /\ other_tpc[i] = "resuming"
    /\ request_limiter' = released(request_limiter, other_response[i])
    /\ other_tpc' = [other_tpc EXCEPT ![i] = position_after_call(other_response[i])]
    /\ UNCHANGED <<other_pc, other_response>>
    /\ UNCHANGED <<pc, batches_count, total_questions, questions_in_batch, error,
                   question_generation_results, tpc, response, task_result,
                   slot_held, finish_order, requests_sent>>
    /\ UNCHANGED <<parser_vars, reader_vars>>

(* gather of the second run: every task has returned *)
other_gather_returns ==
    /\ other_pc = "gather"
    /\ \A i \in OtherBatches :
          other_tpc[i] = "done" /\ request_outcome(other_response[i]).exc = "none"
    /\ other_pc' = "returned"
    /\ UNCHANGED <<other_tpc, other_response, orchestrator_vars, parser_vars, reader_vars>>

(* gather of the second run: a task has raised *)
other_gather_raises ==
    /\ other_pc = "gather"
    /\ \E i \in OtherBatches :
          other_tpc[i] = "done" /\ request_outcome(other_response[i]).exc # "none"
    /\ other_pc' = "raised"
    /\ UNCHANGED <<other_tpc, other_response, orchestrator_vars, parser_vars, reader_vars>>

SharedNext ==
    \/ Next
    \/ other_generate_question_batches
    \/ \E i \in OtherBatches : other_prepare_and_send_request(i)
    \/ \E i \in OtherBatches : other_acquire(i)
    \/ \E i \in OtherBatches : \E resp \in OtherCallResults : other_api_chat_call_ends(i, resp)
    \/ \E i \in OtherBatches : other_execute_chat_request_async(i)
    \/ other_gather_returns
    \/ other_gather_raises

SharedSpec == SharedInit /\ [][SharedNext]_vars

----------------------------------------------------------------------------
(* read_file_content: the walk over the files of data_dir *)

FileTexts == { <<"x">>, <<" ", "y", "\n">>, <<>> }

PageLists == { <<>>, << <<"x">> >>, << <<"x", " ">>, <<"y">> >> }

(* A file the walk yields: the type its content has, whether it can be     *)
(* opened and decoded, and its text (text file) or its pages (PDF).        *)
TextFiles ==
    [type : {"text/plain", "text/markdown"},
     condition : {"ok", "unreadable", "undecodable"},
     text : FileTexts,
     pages : {<<>>}]

PdfFiles ==
    [type : {"application/pdf"},
     condition : {"ok", "unreadable", "corrupt"},
     text : {<<>>},
     pages : PageLists]

OtherFiles ==
    [type : {"image/png"},
     condition : {"ok", "unreadable"},
     text : {<<>>},
     pages : {<<>>}]

Files == TextFiles \cup PdfFiles \cup OtherFiles

FileLists == UNION { [1..n -> Files] : n \in 0..MaxFiles }

(* line 44: magic.from_file(file_path, mime=True), called outside any try. *)
(* It gives the type of a file it can open.  On a file it cannot open the  *)
(* library either raises the error of the failed open or gives libmagic's  *)
(* message in place of a type, depending on its version.                   *)
magic_from_file(f) ==
    IF f.condition = "unreadable"
    THEN { [exc |-> "OSError", mime |-> "none"],
           [exc |-> "none", mime |-> "cannot open"] }
    ELSE { [exc |-> "none", mime |-> f.type] }

(* lines 24-30: the stripped text and a space, '' when open or read raises *)
read_text_file(f) ==
    IF f.condition = "ok" THEN strip(f.text) \o <<" ">> ELSE <<>>

RECURSIVE pages_text(_)
pages_text(pages) ==
    IF pages = <<>> THEN <<>>
    ELSE strip(Head(pages)) \o <<" ">> \o pages_text(Tail(pages))

(* lines 32-41: the stripped text of every page, each followed by a space, *)
(* '' when open, PdfReader or extract_text raises                          *)
read_pdf_file(f) ==
    IF f.condition = "ok" THEN pages_text(f.pages) ELSE <<>>

(* lines 45-51, for the type file_type that line 44 obtained *)
process_file(f, file_type) ==
    IF file_type \in {"text/plain", "text/markdown"} THEN read_text_file(f)
    ELSE IF file_type = "application/pdf" THEN read_pdf_file(f)
    ELSE <<>>

(* ' '.join(file_strings) *)
RECURSIVE join(_)
join(strings) ==
    IF strings = <<>> THEN <<>>
    ELSE IF Len(strings) = 1 THEN strings[1]
    ELSE strings[1] \o <<" ">> \o join(Tail(strings))

ReadInit ==
    /\ pc = "idle"
    /\ batches_count = 0
    /\ total_questions = 0
    /\ questions_in_batch = <<>>
    /\ error = "none"
    /\ question_generation_results = <<>>
    /\ tpc = <<>>
    /\ response = <<>>
    /\ task_result = <<>>
    /\ request_limiter = allowed_concurrent_requests
    /\ slot_held = {}
    /\ finish_order = <<>>
    /\ requests_sent = <<>>
    /\ NoParserCall
    /\ NoOtherRun
    /\ read_pc = "walking"
    /\ walk_files \in FileLists
    /\ walk_pos = 1
    /\ file_strings = <<>>
    /\ corpus = <<>>
    /\ read_error = "none"

(* lines 57-61: one turn of the loop, on the file the walk is at.  An      *)
(* exception of line 44 is caught nowhere and leaves read_file_content.    *)
read_file_content ==
    /\ read_pc = "walking"
    /\ walk_pos <= Len(walk_files)
    /\ \E sniffed \in magic_from_file(walk_files[walk_pos]) :
          IF sniffed.exc # "none"
          THEN /\ read_pc' = "raised"
               /\ read_error' = sniffed.exc
               /\ UNCHANGED <<walk_pos, file_strings>>
          ELSE LET file_text == process_file(walk_files[walk_pos], sniffed.mime)
               IN  /\ file_strings' = IF file_text # <<>>
                                      THEN Append(file_strings, file_text)
                                      ELSE file_strings
                   /\ walk_pos' = walk_pos + 1
                   /\ UNCHANGED <<read_pc, read_error>>
    /\ UNCHANGED <<walk_files, corpus>>
    /\ UNCHANGED <<orchestrator_vars, parser_vars, other_run_vars>>

(* line 63: the walk is over, the texts are joined *)
read_file_content_returns ==
    /\ read_pc = "walking"
    /\ walk_pos > Len(walk_files)
    /\ corpus' = join(file_strings)
    /\ read_pc' = "returned"
    /\ UNCHANGED <<walk_files, walk_pos, file_strings, read_error>>
    /\ UNCHANGED <<orchestrator_vars, parser_vars, other_run_vars>>

ReadNext ==
    \/ read_file_content
    \/ read_file_content_returns

ReadSpec == ReadInit /\ [][ReadNext]_vars

----------------------------------------------------------------------------
(* parse_qa_to_json called on its own, on text written from records *)

Ordinals == { <<>>, <<"1">>, <<"2", "1">> }

Questions == { <<"x">>, <<"y", " ">>, <<>> }

Answers == { <<"y">>, <<"x", "\n", "y", " ">>, <<>> }

Trailers == { <<>>, <<"\n">> }

Records == [ordinal : Ordinals, question : Questions, answer : Answers]

RecordLists == UNION { [1..n -> Records] : n \in 0..MaxRecords }

(* "<k>. Question: <q>\nAnswer: <a>", or "Question: <q>\nAnswer: <a>" for   *)
(* a record with no ordinal                                                *)
RenderRecord(r) ==
    (IF r.ordinal = <<>> THEN <<>> ELSE r.ordinal \o <<".", " ">>)
    \o <<"Question:", " ">> \o r.question
    \o <<"\n", "Answer:", " ">> \o r.answer

RECURSIVE Render(_)
Render(records) ==
    IF records = <<>> THEN <<>>
    ELSE IF Len(records) = 1 THEN RenderRecord(records[1])
    ELSE RenderRecord(records[1]) \o <<"\n">> \o Render(Tail(records))

ParseInit ==
    /\ pc = "idle"
    /\ batches_count = 0
    /\ total_questions = 0
    /\ questions_in_batch = <<>>
    /\ error = "none"
    /\ question_generation_results = <<>>
    /\ tpc = <<>>
    /\ response = <<>>
    /\ task_result = <<>>
    /\ request_limiter = allowed_concurrent_requests
    /\ slot_held = {}
    /\ finish_order = <<>>
    /\ requests_sent = <<>>
    /\ parse_pc = "called"
    /\ qa_input \in [records : RecordLists, trailer : Trailers]
    /\ response_string = Render(qa_input.records) \o qa_input.trailer
    /\ qa_json = <<>>
    /\ NoOtherRun
    /\ NoReaderCall

parse_qa_to_json_call ==
    /\ parse_pc = "called"
    /\ qa_json' = parse_qa_to_json(response_string)
    /\ parse_pc' = "returned"
    /\ UNCHANGED <<qa_input, response_string>>
    /\ UNCHANGED <<orchestrator_vars, other_run_vars, reader_vars>>

ParseNext == parse_qa_to_json_call

ParseSpec == ParseInit /\ [][ParseNext]_vars

----------------------------------------------------------------------------
(* Properties of generate_question_batches and its tasks (Spec) *)

RECURSIVE SumSeq(_)
SumSeq(q) == IF q = <<>> THEN 0 ELSE Head(q) + SumSeq(Tail(q))

Calling == {i \in Batches : tpc[i] = "calling"}

Raised == {i \in Batches : response[i].status = "raised"}

AllDone == \A i \in Batches : tpc[i] = "done"

EmptyResult == [exc |-> "none", value |-> <<>>]

(* the list the text of a response parses to *)
ParsedResponse(resp) == json_loads(parse_qa_to_json(assistant_response(resp.choices))).value

(* C1: for every batch count C >= 1 and every total T >= 0, the quotas     *)
(* given to the C batches sum to exactly T.                                *)
C1_QuotasSumToTotal ==
    (batches_count >= 1 /\ pc # "start")
        => /\ Len(questions_in_batch) = batches_count
           /\ SumSeq(questions_in_batch) = total_questions

C1_Witness ==
    /\ pc = "gather"
    /\ batches_count = 3
    /\ total_questions = 4
    /\ questions_in_batch = <<2, 1, 1>>

(* C2: at most allowed_concurrent_requests completion calls are in         *)
(* progress at any time, and every call in progress belongs to a task that *)
(* holds a slot of the limiter.                                            *)
C2_CallsWithinCapacity ==
    /\ Cardinality(Calling) <= allowed_concurrent_requests
    /\ Calling \subseteq slot_held
    /\ Cardinality(slot_held) <= allowed_concurrent_requests

C2_Witness ==
    /\ batches_count > allowed_concurrent_requests
    /\ Cardinality(Calling) = allowed_concurrent_requests
    /\ \E i \in Batches : tpc[i] = "waiting"

(* C3: every slot taken is given back exactly once, whether the call       *)
(* returned or raised: the free slots and the slots held always add up to  *)
(* the capacity, a finished task holds none, and once every task has       *)
(* finished the free slots equal the capacity.                             *)
C3_SlotsReleased ==
    /\ request_limiter + Cardinality(slot_held) = allowed_concurrent_requests
    /\ \A i \in Batches : tpc[i] = "done" => i \notin slot_held
    /\ (pc # "start" /\ AllDone) => request_limiter = allowed_concurrent_requests

C3_Witness ==
    /\ batches_count > allowed_concurrent_requests
    /\ AllDone
    /\ Raised # {}
    /\ Raised # Batches
    /\ request_limiter = allowed_concurrent_requests

(* C4: whatever the order in which the calls finish, the sequence returned *)
(* by generate_question_batches holds at index i the parsed response of    *)
(* batch i.                                                                *)
C4_ResultsInBatchOrder ==
    pc = "returned"
        => /\ Len(question_generation_results) = batches_count
           /\ \A i \in Batches :
                 question_generation_results[i] = ParsedResponse(response[i])

C4_Witness ==
    /\ pc = "returned"
    /\ batches_count = 2
    /\ finish_order = <<2, 1>>
    /\ question_generation_results[1] # question_generation_results[2]

(* C5: when the call of exactly one batch raises and the others succeed,   *)
(* generate_question_batches returns one slot per batch, the parsed result *)
(* of every other batch at its index.                                      *)
C5_OtherBatchesKept ==
    (AllDone /\ Cardinality(Raised) = 1)
        => /\ pc # "raised"
           /\ pc = "returned"
                 => /\ Len(question_generation_results) = batches_count
                    /\ \A i \in Batches \ Raised :
                          question_generation_results[i] = ParsedResponse(response[i])

(* C6: when the call of a batch raises, its task ends with an empty result *)
(* and no exception.                                                       *)
C6_FailedCallGivesEmptyResult ==
    \A i \in Batches :
        (tpc[i] = "done" /\ response[i].status = "raised") => task_result[i] = EmptyResult

(* C7: with zero batches generate_question_batches reports a configuration *)
(* error, not a division by zero.                                          *)
C7_ZeroBatchesReported ==
    (batches_count = 0 /\ pc \notin {"start", "idle"})
        => /\ pc = "raised"
           /\ error = "ConfigurationError"

(* C10: a response whose assistant content holds no question/answer match  *)
(* parses to an empty JSON array: the task of that batch ends with an      *)
(* empty list and no exception, the slot of the batch in the final result  *)
(* is the empty list, and generate_question_batches raises only if the     *)
(* call of some batch raised.                                              *)
C10_NoMatchGivesEmptySlot ==
    /\ \A i \in Batches :
          (/\ tpc[i] = "done"
           /\ response[i].status = "returned"
           /\ findall(assistant_response(response[i].choices), 1) = <<>>)
              => /\ task_result[i] = EmptyResult
                 /\ pc = "returned" => question_generation_results[i] = <<>>
    /\ (pc = "raised" /\ batches_count >= 1) => Raised # {}

C10_Witness ==
    /\ pc = "returned"
    /\ \E i, j \in Batches :
          /\ response[i].choices = <<Choice("assistant", PlainText)>>
          /\ question_generation_results[i] = <<>>
          /\ question_generation_results[j] # <<>>

(* C11: for every C >= 1 and T >= 0 the quota of batch i (counted from 0)  *)
(* is T // C + 1 when i < T % C and T // C otherwise: every quota is one   *)
(* of the two values, exactly the first T % C batches get the larger one,  *)
(* and no quota is negative.                                               *)
C11_QuotaOfEachBatch ==
    (batches_count >= 1 /\ pc # "start")
        => \A i \in Batches :
              /\ questions_in_batch[i] \in
                    {total_questions \div batches_count,
                     (total_questions \div batches_count) + 1}
              /\ (questions_in_batch[i] = (total_questions \div batches_count) + 1)
                    <=> (i - 1 < total_questions % batches_count)
              /\ questions_in_batch[i] >= 0

C11_Witness ==
    /\ pc = "gather"
    /\ batches_count = 3
    /\ total_questions = 2
    /\ questions_in_batch = <<1, 1, 0>>

HasAssistant(choices) == \E k \in 1..Len(choices) : choices[k].role = "assistant"

(* C12: every task exists before generate_question_batches awaits any of   *)
(* them; a task that has not started is free to start as soon as the tasks *)
(* before it have started, and a task waiting for the limiter is free to   *)
(* go on as soon as a slot is free, whether or not the call of any other   *)
(* batch is over.                                                          *)
C12_FanOut ==
    /\ pc = "gather" => \A i \in Batches : tpc[i] # "uncreated"
    /\ \A i \in Batches :
          (tpc[i] = "created" /\ \A j \in Batches : j < i => tpc[j] # "created")
              => ENABLED prepare_and_send_request(i)
    /\ \A i \in Batches :
          (tpc[i] = "waiting" /\ request_limiter > 0) => ENABLED acquire(i)

(* with a capacity of at least C, the calls of all C batches in progress *)
C12_Witness ==
    /\ pc = "gather"
    /\ batches_count >= 2
    /\ batches_count <= allowed_concurrent_requests
    /\ Calling = Batches

(* C13: at most one completion call is issued for each batch, also for a   *)
(* batch whose call raised: after a failed call the task only ends.        *)
C13_OneCallPerBatch ==
    \A i \in Batches :
        /\ Len(requests_sent[i]) <= 1
        /\ response[i].status = "raised" => tpc[i] \in {"resuming", "done"}

C13_Witness ==
    /\ pc = "raised"
    /\ AllDone
    /\ Raised # {}
    /\ \A i \in Batches : Len(requests_sent[i]) = 1

(* C14: generate_question_batches neither returns nor raises before the    *)
(* task of every batch is over.                                            *)
C14_FinishesAfterAllTasks ==
    pc \in {"returned", "raised"} => AllDone

(* C15: when every call ends and the wait queue is fair, every task that   *)
(* has not started or waits for the limiter gets a slot and ends, and      *)
(* generate_question_batches, once awaiting, finishes.                     *)
C15_EveryExecutorFinishes ==
    /\ \A i \in 1..MaxChunks :
          (i \in Batches /\ tpc[i] \in {"created", "waiting"})
              ~> (i \in Batches /\ tpc[i] = "done" /\ Len(requests_sent[i]) = 1)
    /\ (pc = "gather") ~> (pc \in {"returned", "raised"})

(* three batches on two slots: the third got its slot after the first gave *)
(* its own back, and ended before the second                               *)
C15_Witness ==
    /\ batches_count > allowed_concurrent_requests
    /\ AllDone
    /\ finish_order = <<1, 3, 2>>

(* C16: a response with no message of role "assistant" gives an empty      *)
(* result for its batch: the task ends with an empty list and no           *)
(* exception, and in the final result the slot of the batch is empty and   *)
(* the slots of the other batches hold their parsed responses.             *)
C16_NoAssistantGivesEmptyResult ==
    \A i \in Batches :
        (/\ tpc[i] = "done"
         /\ response[i].status = "returned"
         /\ ~HasAssistant(response[i].choices))
            => /\ task_result[i] = EmptyResult
               /\ pc = "returned"
                     => /\ question_generation_results[i] = <<>>
                        /\ \A j \in Batches \ {i} :
                              question_generation_results[j] = ParsedResponse(response[j])

C16_Witness ==
    /\ pc = "returned"
    /\ \E i, j \in Batches :
          /\ ~HasAssistant(response[i].choices)
          /\ question_generation_results[i] = <<>>
          /\ question_generation_results[j] # <<>>

(* C19: a request is issued for every batch whatever the target: with      *)
(* T < C every batch of index >= T has quota 0, and once every task is     *)
(* over exactly one request was sent for each batch, asking for its quota, *)
(* 0 included.                                                             *)
C19_RequestForEveryBatch ==
    /\ (pc \notin {"start", "idle"} /\ total_questions < batches_count)
          => \A i \in Batches : i - 1 >= total_questions => questions_in_batch[i] = 0
    /\ (pc \notin {"start", "idle"} /\ AllDone)
          => \A i \in Batches :
                /\ Len(requests_sent[i]) = 1
                /\ requests_sent[i][1] =
                      [total_questions |-> questions_in_batch[i], document_content |-> i]

C19_Witness ==
    /\ AllDone
    /\ batches_count = 3
    /\ total_questions = 1
    /\ requests_sent[3] = <<[total_questions |-> 0, document_content |-> 3]>>

----------------------------------------------------------------------------
(* Properties of two runs sharing the limiter (SharedSpec) *)

OtherCalling == {i \in OtherBatches : other_tpc[i] = "calling"}

(* C18: when two runs of generate_question_batches execute in the same     *)
(* process, the completion calls in progress, counted over both runs,      *)
(* never exceed allowed_concurrent_requests: the cap is one for the        *)
(* process, not one for each run.                                          *)
C18_CallsOfBothRunsWithinCapacity ==
    Cardinality(Calling) + Cardinality(OtherCalling) <= allowed_concurrent_requests

(* both runs have a call in progress, together they fill the limiter, and  *)
(* each run has a task waiting for a slot                                  *)
C18_Witness ==
    /\ Calling # {}
    /\ OtherCalling # {}
    /\ Cardinality(Calling) + Cardinality(OtherCalling) = allowed_concurrent_requests
    /\ \E i \in Batches : tpc[i] = "waiting"
    /\ \E i \in OtherBatches : other_tpc[i] = "waiting"

----------------------------------------------------------------------------
(* Properties of read_file_content (ReadSpec) *)

(* the text of a file when it is read successfully, '' otherwise *)
TextRead(f) ==
    IF f.condition # "ok" THEN <<>>
    ELSE IF f.type \in {"text/plain", "text/markdown"} THEN strip(f.text) \o <<" ">>
    ELSE IF f.type = "application/pdf" THEN pages_text(f.pages)
    ELSE <<>>

NonEmpty(text) == text # <<>>

(* the texts of the files read successfully, in the order of the walk *)
TextsRead(files) == SelectSeq([i \in 1..Len(files) |-> TextRead(files[i])], NonEmpty)

(* when the walk returns, every file was visited and the corpus is the     *)
(* text of the files that were read successfully                           *)
ReturnedCorpusComplete ==
    read_pc = "returned" =>
        /\ walk_pos = Len(walk_files) + 1
        /\ corpus = join(TextsRead(walk_files))

(* C17: a failure on one file (unreadable file, corrupt PDF, unsupported   *)
(* type) never aborts the walk of read_file_content: the walk does not     *)
(* raise, and when it returns every file was visited and the corpus holds  *)
(* the text of all the files that were read successfully.                  *)
C17_FailureNeverAbortsWalk ==
    /\ read_pc # "raised"
    /\ ReturnedCorpusComplete

----------------------------------------------------------------------------
(* Properties of parse_qa_to_json (ParseSpec) *)

(* the records a text written from records is meant to parse to *)
Expected(records) ==
    [i \in 1..Len(records) |->
        [question |-> strip(records[i].question), answer |-> strip(records[i].answer)]]

Numbered(records) == \A i \in 1..Len(records) : records[i].ordinal # <<>>

NonBlank(records) ==
    \A i \in 1..Len(records) :
        strip(records[i].question) # <<>> /\ strip(records[i].answer) # <<>>

(* C8: a record "Question: <q>\nAnswer: <a>" with no ordinal and no dot    *)
(* before "Question:" is extracted as one record, question and answer      *)
(* trimmed.                                                                *)
C8_OrdinalOptional ==
    (/\ parse_pc = "returned"
     /\ Len(qa_input.records) = 1
     /\ qa_input.records[1].ordinal = <<>>
     /\ NonBlank(qa_input.records))
        => qa_json = json_dumps(Expected(qa_input.records))

(* C9: a text of n >= 1 records "<k>. Question: <q>\nAnswer: <a>"          *)
(* separated by newlines parses to exactly those n records, in order,      *)
(* question and answer trimmed.                                            *)
C9_NumberedRecordsParsed ==
    (/\ parse_pc = "returned"
     /\ Len(qa_input.records) >= 1
     /\ Numbered(qa_input.records))
        => qa_json = json_dumps(Expected(qa_input.records))

(* The statement of C9 for records whose question and answer both hold a   *)
(* character that is not whitespace.                                       *)
NonBlankNumberedRecordsParsed ==
    (/\ parse_pc = "returned"
     /\ Len(qa_input.records) >= 1
     /\ Numbered(qa_input.records)
     /\ NonBlank(qa_input.records))
        => qa_json = json_dumps(Expected(qa_input.records))

====
